---- MODULE Spec2Model ----
(***************************************************************************)
(* Kernolog (db.py): journalctl -> repeat cache -> window flusher ->       *)
(* work queue -> batch assembler -> similarity index + metadata store,     *)
(* with the interactive query path and the shutdown sequence of main().    *)
(*                                                                         *)
(* Text is a sequence of one-character strings (and, for the literals the  *)
(* flusher inserts, multi-character fragments); a line, a normalized key   *)
(* and a FlushedRecord's text are all such sequences.                      *)
(***************************************************************************)
EXTENDS Integers, Sequences, FiniteSets, TLC

(***************************************************************************)
(* Bounds of the model.                                                    *)
(***************************************************************************)
\* lines the log source delivers before it goes quiet
MaxLines == 2
\* flush intervals that elapse (timeouts of the flusher's wait)
MaxWindows == 1
\* length of the lines normalize_log is tried on, one by one
MaxLineLen == 6

(***************************************************************************)
(* Configuration (db.py:30-33), scaled down from 16 and 100000: a batch   *)
(* fills after two records and the store overflows at its second entry.   *)
(***************************************************************************)
BATCH_SIZE == 2
MAX_METADATA_SIZE == 1

(***************************************************************************)
(* Character classes of the regular expressions (db.py:50-52).             *)
(***************************************************************************)
UpperChars == {"N"}
LowerChars == {"o", "v", "h", "a", "b"}
DigitChars == {"0", "1", "2", "3", "4", "5", "6", "7", "8", "9"}
SpaceChars == {" ", "\t"}

\* index just past the maximal run of characters of class cls starting at i
RECURSIVE RunEnd(_, _, _)
RunEnd(line, i, cls) ==
    IF i <= Len(line) /\ line[i] \in cls THEN RunEnd(line, i + 1, cls) ELSE i

RECURSIVE NonSpaceEnd(_, _)
NonSpaceEnd(line, i) ==
    IF i <= Len(line) /\ line[i] \notin SpaceChars
    THEN NonSpaceEnd(line, i + 1) ELSE i

\* ^[A-Z][a-z]{2}\s+\d+\s+\d+:\d+:\d+\s+\S+\s+ : length of the match at the
\* start of line, 0 when there is none.  Neighbouring classes are disjoint,
\* so each + takes its maximal run and backtracking finds nothing else.
TIMESTAMP_HOSTNAME_PATTERN(line) ==
    IF ~(Len(line) >= 3 /\ line[1] \in UpperChars
         /\ line[2] \in LowerChars /\ line[3] \in LowerChars)
    THEN 0
    ELSE
      LET s1 == RunEnd(line, 4, SpaceChars)
          d1 == RunEnd(line, s1, DigitChars)
          s2 == RunEnd(line, d1, SpaceChars)
          d2 == RunEnd(line, s2, DigitChars)
          d3 == RunEnd(line, d2 + 1, DigitChars)
          d4 == RunEnd(line, d3 + 1, DigitChars)
          s3 == RunEnd(line, d4, SpaceChars)
          h  == NonSpaceEnd(line, s3)
          s4 == RunEnd(line, h, SpaceChars)
      IN IF /\ s1 > 4 /\ d1 > s1 /\ s2 > d1 /\ d2 > s2
            /\ d2 <= Len(line) /\ line[d2] = ":" /\ d3 > d2 + 1
            /\ d3 <= Len(line) /\ line[d3] = ":" /\ d4 > d3 + 1
            /\ s3 > d4 /\ h > s3 /\ s4 > h
         THEN s4 - 1
         ELSE 0

\* \[\d+\] removed wherever it occurs, scanning left to right
RECURSIVE PID_PATTERN(_)
PID_PATTERN(line) ==
    IF line = <<>> THEN <<>>
    ELSE LET e == RunEnd(line, 2, DigitChars)
         IN IF line[1] = "[" /\ e > 2 /\ e <= Len(line) /\ line[e] = "]"
            THEN PID_PATTERN(SubSeq(line, e + 1, Len(line)))
            ELSE <<line[1]>> \o PID_PATTERN(Tail(line))

\* \s+ replaced by one space
RECURSIVE WHITESPACE_PATTERN(_)
WHITESPACE_PATTERN(line) ==
    IF line = <<>> THEN <<>>
    ELSE IF line[1] \in SpaceChars
         THEN <<" ">> \o WHITESPACE_PATTERN(
                  SubSeq(line, RunEnd(line, 1, SpaceChars), Len(line)))
         ELSE <<line[1]>> \o WHITESPACE_PATTERN(Tail(line))

\* str.strip()
RECURSIVE Strip(_)
Strip(line) ==
    IF line = <<>> THEN <<>>
    ELSE IF line[1] \in SpaceChars THEN Strip(Tail(line))
    ELSE IF line[Len(line)] \in SpaceChars
         THEN Strip(SubSeq(line, 1, Len(line) - 1))
    ELSE line

normalize_log(line) ==
    LET l1 == SubSeq(line, TIMESTAMP_HOSTNAME_PATTERN(line) + 1, Len(line))
        l2 == PID_PATTERN(l1)
        l3 == WHITESPACE_PATTERN(l2)
    IN Strip(l3)

\* the lines the log source can deliver (each already without its "\n")
RawLines ==
    { <<"N","o","v"," ","4"," ","1",":","2",":","3"," ","h"," ","a","[","1","]">>,
      <<"a">>,
      <<"b"," "," ","[","7","]">>,
      <<"[","1","]">> }

\* the normalized keys those lines produce (the empty one included)
Keys == { normalize_log(l) : l \in RawLines }

(***************************************************************************)
(* Formatting done by the flusher (db.py:153, 173, 187).                   *)
(***************************************************************************)
Digits == <<"0", "1", "2", "3", "4", "5", "6", "7", "8", "9">>

\* str(n) of a natural number
RECURSIVE Dec(_)
Dec(n) == IF n < 10 THEN <<Digits[n + 1]>>
          ELSE Dec(n \div 10) \o <<Digits[(n % 10) + 1]>>

\* strftime("%Y-%m-%d %H:%M:%S") of clock value t: the clock counts flush
\* intervals, rendered in the seconds field
FormatTime(t) ==
    <<"2025-11-04 23:58:">> \o (IF t < 10 THEN <<"0">> ELSE <<>>) \o Dec(t)

\* f'<stopwatch> {now} | "{msg}" repeated {count}x'
Summary(now, msg, count) ==
    <<"<stopwatch>", " ">> \o FormatTime(now) \o <<" ", "|", " ", "\"">>
        \o msg \o <<"\"", " ", "repeated", " ">> \o Dec(count) \o <<"x">>

\* DisplayText, never summarizing
DisplayText_NoSummary(now, msg, count) == msg

\* the text put on log_queue for one (msg, count) pair (db.py:168-174, 187)
DisplayText(now, msg, count) ==
    IF count = 1 THEN msg ELSE Summary(now, msg, count)

(***************************************************************************)
(* The repeat cache: a dict, kept as the sequence of its items in          *)
(* insertion order.                                                        *)
(***************************************************************************)
CacheHas(cache, key) == \E i \in DOMAIN cache : cache[i].msg = key

\* CacheGet, forgetting the count already there
CacheGet_Forgets(cache, key, default) == default

\* dict.get(key, default)
CacheGet(cache, key, default) ==
    IF CacheHas(cache, key)
    THEN cache[CHOOSE i \in DOMAIN cache : cache[i].msg = key].count
    ELSE default

\* dict[key] = val
CacheSet(cache, key, val) ==
    IF CacheHas(cache, key)
    THEN [i \in DOMAIN cache |->
            IF cache[i].msg = key THEN [msg |-> key, count |-> val]
            ELSE cache[i]]
    ELSE Append(cache, [msg |-> key, count |-> val])

(***************************************************************************)
(* The collaborators: the embedding model and the flat L2 index.           *)
(***************************************************************************)
\* model.encode of one text.  The vector is opaque; all that is kept of it
\* is which text it was computed from.
Encode(text) == [of |-> text]

\* squared L2 distance between two vectors, abstracted to same / different
Distance(u, v) == IF u = v THEN 0 ELSE 1

\* index.search(q_emb, k): the k nearest positions (0-based, as FAISS
\* reports them), nearest first, ties by position
RECURSIVE Nearest(_, _, _, _)
Nearest(idx, q_emb, k, taken) ==
    IF k = 0 \/ Cardinality(taken) = Len(idx) THEN <<>>
    ELSE LET cand == (1..Len(idx)) \ taken
             best == CHOOSE p \in cand : \A r \in cand :
                        \/ Distance(idx[p], q_emb) < Distance(idx[r], q_emb)
                        \/ /\ Distance(idx[p], q_emb) = Distance(idx[r], q_emb)
                           /\ p <= r
         IN <<[dist |-> Distance(idx[best], q_emb), idx |-> best - 1]>>
                \o Nearest(idx, q_emb, k - 1, taken \cup {best})

Min(a, b) == IF a < b THEN a ELSE b

(***************************************************************************)
(* State.  Each task's steps are cut at its accesses to shared state: a    *)
(* step holds at most one of them, together with the task's own local      *)
(* work around it.                                                         *)
(***************************************************************************)
VARIABLES
    shutdown_event,   \* threading.Event: TRUE once set
    repeat_cache,     \* items of the dict, [msg, count], in insertion order
    cache_lock,       \* "free" or the task holding it
    log_queue,        \* queue.Queue of [id, text, ts]
    metadata,         \* list of [id, text, timestamp]
    metadata_lock,    \* "free" or the task holding it
    index,            \* the vectors of the FAISS index, in position order
    clock,            \* wall clock, in flush intervals
    \* watch_journalctl
    wpc, normalized, w_count, lines_read,
    \* repeat_flusher
    fpc, next_id, items, now,
    \* embed_worker
    epc, e_ret, batch_ids, batch_texts, batch_timestamps,
    \* main and search_query
    mpc, q, k, display_mode, q_emb, hits,
    \* history: what happened so far, read by the properties only
    window,           \* per key, the lines counted since the last drain
    windows,          \* the same, of every window drained so far
    pushed,           \* every record put on log_queue, with its window
    pulled,           \* the ids taken off log_queue, in order
    pre,              \* index, metadata and batch when process_batch began
    outcome,          \* how the last process_batch went
    discarded,        \* ids of the batches that failed
    appended          \* every entry appended to metadata, trimmed or not

watcher_vars == <<wpc, normalized, w_count, lines_read>>
flusher_vars == <<fpc, next_id, items, now>>
worker_vars  == <<epc, e_ret, batch_ids, batch_texts, batch_timestamps>>
main_vars    == <<mpc, q, k, display_mode, q_emb, hits>>
cache_vars   == <<repeat_cache, cache_lock>>
store_vars   == <<metadata, metadata_lock, index>>
flush_hist   == <<window, windows, pushed>>
batch_hist   == <<pulled, pre, outcome, discarded, appended>>

vars == <<shutdown_event, repeat_cache, cache_lock, log_queue, metadata,
          metadata_lock, index, clock, watcher_vars, flusher_vars,
          worker_vars, main_vars, flush_hist, batch_hist>>

NoLines == [key \in Keys |-> 0]

Init ==
    /\ shutdown_event = FALSE
    /\ repeat_cache = <<>>
    /\ cache_lock = "free"
    /\ log_queue = <<>>
    /\ metadata = <<>>
    /\ metadata_lock = "free"
    /\ index = <<>>
    /\ clock = 0
    /\ wpc = "w_loop" /\ normalized = <<>> /\ w_count = 0 /\ lines_read = 0
    /\ fpc = "f_wait" /\ next_id = 0 /\ items = <<>> /\ now = 0
    /\ epc = "e_loop" /\ e_ret = "e_loop"
    /\ batch_ids = <<>> /\ batch_texts = <<>> /\ batch_timestamps = <<>>
    /\ mpc = "m_input" /\ q = <<>> /\ k = 0 /\ display_mode = "pretty"
    /\ q_emb = Encode(<<>>) /\ hits = <<>>
    /\ window = NoLines /\ windows = <<>> /\ pushed = <<>>
    /\ pulled = <<>>
    /\ pre = [index |-> <<>>, metadata |-> <<>>, ids |-> <<>>, texts |-> <<>>,
              stamps |-> <<>>]
    /\ outcome = "none" /\ discarded = {} /\ appended = <<>>

\* the process is running: once main() has returned, the daemon threads
\* are gone with it
Running == mpc # "m_done"

(***************************************************************************)
(* watch_journalctl (db.py:81-131)                                         *)
(***************************************************************************)
\* the loop test finds the event clear and readline() returns a line; it
\* is normalized and, unless that leaves nothing, goes on to be counted
\*                                                        (db.py:100-113)
W_Read ==
    /\ Running /\ wpc = "w_loop" /\ ~shutdown_event /\ lines_read < MaxLines
    /\ \E line \in RawLines :
         /\ normalized' = normalize_log(line)
         /\ wpc' = IF normalize_log(line) # <<>> THEN "w_lock" ELSE "w_loop"
    /\ lines_read' = lines_read + 1
    /\ UNCHANGED <<shutdown_event, cache_vars, log_queue, store_vars, clock,
                   w_count, flusher_vars, worker_vars, main_vars, flush_hist,
                   batch_hist>>

\* the loop test finds the event set                           (db.py:100)
W_Stop ==
    /\ Running /\ wpc = "w_loop" /\ shutdown_event
    /\ wpc' = "w_done"
    /\ UNCHANGED <<shutdown_event, cache_vars, log_queue, store_vars, clock,
                   normalized, w_count, lines_read, flusher_vars, worker_vars,
                   main_vars, flush_hist, batch_hist>>

\* readline() returns nothing and journalctl has ended    (db.py:102-105)
W_Eof ==
    /\ Running /\ wpc = "w_loop" /\ ~shutdown_event
    /\ wpc' = "w_done"
    /\ UNCHANGED <<shutdown_event, cache_vars, log_queue, store_vars, clock,
                   normalized, w_count, lines_read, flusher_vars, worker_vars,
                   main_vars, flush_hist, batch_hist>>

\* with cache_lock: ... repeat_cache.get(normalized, 0)   (db.py:115-117)
W_Acquire ==
    /\ Running /\ wpc = "w_lock" /\ cache_lock = "free"
    /\ cache_lock' = "watcher"
    /\ w_count' = CacheGet(repeat_cache, normalized, 0)
    /\ wpc' = "w_set"
    /\ UNCHANGED <<shutdown_event, repeat_cache, log_queue, store_vars, clock,
                   normalized, lines_read, flusher_vars, worker_vars,
                   main_vars, flush_hist, batch_hist>>

\* repeat_cache[normalized] = ... + 1, and the lock is let go (db.py:117)
W_Set ==
    /\ Running /\ wpc = "w_set"
    /\ repeat_cache' = CacheSet(repeat_cache, normalized, w_count + 1)
    /\ cache_lock' = "free"
    /\ wpc' = "w_loop"
    /\ window' = [window EXCEPT ![normalized] = @ + 1]
    /\ UNCHANGED <<shutdown_event, log_queue, store_vars, clock, normalized,
                   w_count, lines_read, flusher_vars, worker_vars, main_vars,
                   windows, pushed, batch_hist>>

(***************************************************************************)
(* repeat_flusher (db.py:134-189)                                          *)
(***************************************************************************)
\* Put, at the wrong end of the queue
Put_Front(queue, id, text, ts) ==
    <<[id |-> id, text |-> text, ts |-> ts]>> \o queue

\* log_queue.put((id, text, ts))                          (db.py:174, 188)
Put(queue, id, text, ts) == Append(queue, [id |-> id, text |-> text, ts |-> ts])

\* NextId, the increment left out
NextId_Same(id) == id

\* next_id += 1                                           (db.py:176, 189)
NextId(id) == id + 1

\* Clear, clearing nothing
Clear_Nothing(cache) == cache

\* repeat_cache.clear()                                   (db.py:161, 182)
Clear(cache) == <<>>

\* the loop test or the wait sees the event set: on to the final flush,
\* whose timestamp string is taken first            (db.py:147-150, 179)
F_WaitSet ==
    /\ Running /\ fpc = "f_wait" /\ shutdown_event
    /\ now' = clock
    /\ fpc' = "ff_lock"
    /\ UNCHANGED <<shutdown_event, cache_vars, log_queue, store_vars, clock,
                   watcher_vars, next_id, items, worker_vars, main_vars,
                   flush_hist, batch_hist>>

\* the wait times out: FLUSH_INTERVAL has passed; now and current_ts are
\* taken                                                  (db.py:149-154)
F_Timeout ==
    /\ Running /\ fpc = "f_wait" /\ ~shutdown_event /\ clock < MaxWindows
    /\ clock' = clock + 1
    /\ now' = clock + 1
    /\ fpc' = "f_lock"
    /\ UNCHANGED <<shutdown_event, cache_vars, log_queue, store_vars,
                   watcher_vars, next_id, items, worker_vars, main_vars,
                   flush_hist, batch_hist>>

\* with cache_lock: if not repeat_cache: continue;
\* items = list(repeat_cache.items())                     (db.py:157-160)
F_Acquire ==
    /\ Running /\ fpc = "f_lock" /\ cache_lock = "free"
    /\ IF repeat_cache = <<>>
       THEN /\ fpc' = "f_wait"
            /\ UNCHANGED <<items, cache_lock>>
       ELSE /\ items' = repeat_cache
            /\ cache_lock' = "flusher"
            /\ fpc' = "f_clear"
    /\ UNCHANGED <<shutdown_event, repeat_cache, log_queue, store_vars, clock,
                   watcher_vars, next_id, now, worker_vars, main_vars,
                   flush_hist, batch_hist>>

\* F_Clear, going on to the conversion with the lock still held
F_Clear_KeepsLock ==
    /\ Running /\ fpc = "f_clear"
    /\ repeat_cache' = Clear(repeat_cache)
    /\ fpc' = IF items = <<>> THEN "f_wait" ELSE "f_push"
    /\ windows' = Append(windows, window)
    /\ window' = NoLines
    /\ UNCHANGED <<shutdown_event, cache_lock, log_queue, store_vars, clock,
                   watcher_vars, next_id, items, now, worker_vars, main_vars,
                   pushed, batch_hist>>

\* repeat_cache.clear(), and the lock is let go                (db.py:161)
F_Clear ==
    /\ Running /\ fpc = "f_clear"
    /\ repeat_cache' = Clear(repeat_cache)
    /\ cache_lock' = "free"
    /\ fpc' = IF items = <<>> THEN "f_wait" ELSE "f_push"
    /\ windows' = Append(windows, window)
    /\ window' = NoLines
    /\ UNCHANGED <<shutdown_event, log_queue, store_vars, clock, watcher_vars,
                   next_id, items, now, worker_vars, main_vars, pushed,
                   batch_hist>>

\* one turn of "for msg, count in items"; after the last one the task is
\* back at its wait                                       (db.py:164-176)
F_Push ==
    /\ Running /\ fpc = "f_push"
    /\ items' = Tail(items)
    /\ fpc' = IF Tail(items) = <<>> THEN "f_wait" ELSE "f_push"
    /\ IF Head(items).msg = <<>>
       THEN UNCHANGED <<log_queue, next_id, pushed>>
       ELSE LET text == DisplayText(now, Head(items).msg, Head(items).count)
            IN /\ log_queue' = Put(log_queue, next_id, text, now)
               /\ pushed' = Append(pushed,
                      [id |-> next_id, text |-> text, ts |-> now,
                       win |-> Len(windows)])
               /\ next_id' = NextId(next_id)
    /\ UNCHANGED <<shutdown_event, cache_vars, store_vars, clock,
                   watcher_vars, now, worker_vars, main_vars, window, windows,
                   batch_hist>>

\* final flush: with cache_lock: items = list(repeat_cache.items())
\*                                                        (db.py:180-181)
FF_Acquire ==
    /\ Running /\ fpc = "ff_lock" /\ cache_lock = "free"
    /\ cache_lock' = "flusher"
    /\ items' = repeat_cache
    /\ fpc' = "ff_clear"
    /\ UNCHANGED <<shutdown_event, repeat_cache, log_queue, store_vars, clock,
                   watcher_vars, next_id, now, worker_vars, main_vars,
                   flush_hist, batch_hist>>

\* repeat_cache.clear(), and the lock is let go; with nothing drained the
\* task ends                                                   (db.py:182)
FF_Clear ==
    /\ Running /\ fpc = "ff_clear"
    /\ repeat_cache' = Clear(repeat_cache)
    /\ cache_lock' = "free"
    /\ fpc' = IF items = <<>> THEN "f_done" ELSE "ff_push"
    /\ windows' = Append(windows, window)
    /\ window' = NoLines
    /\ UNCHANGED <<shutdown_event, log_queue, store_vars, clock, watcher_vars,
                   next_id, items, now, worker_vars, main_vars, pushed,
                   batch_hist>>

\* one turn of the final "for msg, count in items"; the last one ends the
\* task                                                   (db.py:184-189)
FF_Push ==
    /\ Running /\ fpc = "ff_push"
    /\ items' = Tail(items)
    /\ fpc' = IF Tail(items) = <<>> THEN "f_done" ELSE "ff_push"
    /\ IF Head(items).msg = <<>>
       THEN UNCHANGED <<log_queue, next_id, pushed>>
       ELSE LET text == DisplayText(now, Head(items).msg, Head(items).count)
            IN /\ log_queue' = Put(log_queue, next_id, text, clock)
               /\ pushed' = Append(pushed,
                      [id |-> next_id, text |-> text, ts |-> clock,
                       win |-> Len(windows)])
               /\ next_id' = NextId(next_id)
    /\ UNCHANGED <<shutdown_event, cache_vars, store_vars, clock,
                   watcher_vars, now, worker_vars, main_vars, window, windows,
                   batch_hist>>

(***************************************************************************)
(* embed_worker and its helper process_batch (db.py:192-255)               *)
(***************************************************************************)
Range(seq) == { seq[i] : i \in DOMAIN seq }

\* embeddings = model.encode(batch_texts): one vector per text, in order
\*                                                             (db.py:211)
EncodeAll(texts) == [i \in DOMAIN texts |-> Encode(texts[i])]

\* IndexAdd, storing nothing
IndexAdd_Nothing(idx, vectors) == idx

\* index.add(embeddings)                                       (db.py:212)
IndexAdd(idx, vectors) == idx \o vectors

\* Entries, last record first
Entries_Reversed(ids, texts, stamps) ==
    LET n == Len(ids)
    IN [i \in 1..n |->
          [id |-> ids[n + 1 - i], text |-> texts[n + 1 - i],
           timestamp |-> stamps[n + 1 - i]]]

\* the entries process_batch appends: zip(batch_ids, batch_texts,
\* batch_timestamps)                                      (db.py:217-218)
Entries(ids, texts, stamps) ==
    [i \in 1..Min(Len(ids), Min(Len(texts), Len(stamps))) |->
        [id |-> ids[i], text |-> texts[i], timestamp |-> stamps[i]]]

\* Full, never true
Full_Never(texts) == FALSE

\* len(batch_texts) >= BATCH_SIZE                              (db.py:250)
Full(texts) == Len(texts) >= BATCH_SIZE

\* Trim, deleting from the wrong end
Trim_Newest(meta) ==
    IF Len(meta) > MAX_METADATA_SIZE
    THEN SubSeq(meta, 1, MAX_METADATA_SIZE)
    ELSE meta

\* if len(metadata) > MAX_METADATA_SIZE: del metadata[:overflow]
\*                                                        (db.py:221-224)
Trim(meta) ==
    IF Len(meta) > MAX_METADATA_SIZE
    THEN SubSeq(meta, Len(meta) - MAX_METADATA_SIZE + 1, Len(meta))
    ELSE meta

\* Cleared, the list left as it was
Cleared_Kept(list) == list

\* a batch list after the finally: clause                 (db.py:229-232)
Cleared(list) == <<>>

\* a call of process_batch() with the batch as given, to return to ret:
\* nothing to do for an empty batch                       (db.py:205-208)
Call_process_batch(ret, ids, texts, stamps) ==
    IF texts = <<>>
    THEN /\ epc' = ret
         /\ UNCHANGED <<e_ret, pre, outcome>>
    ELSE /\ epc' = "pb_encode"
         /\ e_ret' = ret
         /\ pre' = [index |-> index, metadata |-> metadata, ids |-> ids,
                    texts |-> texts, stamps |-> stamps]
         /\ outcome' = "running"

\* the clearing of the batch and the return of process_batch
Return_process_batch ==
    /\ batch_ids' = Cleared(batch_ids)
    /\ batch_texts' = Cleared(batch_texts)
    /\ batch_timestamps' = Cleared(batch_timestamps)
    /\ epc' = e_ret

\* E_Check, ending on shutdown without the final flush of its batch
E_Check_NoFinalFlush ==
    /\ Running /\ epc = "e_loop"
    /\ epc' = IF shutdown_event THEN "e_done" ELSE "e_get"
    /\ UNCHANGED <<shutdown_event, cache_vars, log_queue, store_vars, clock,
                   watcher_vars, flusher_vars, e_ret, batch_ids, batch_texts,
                   batch_timestamps, main_vars, flush_hist, batch_hist>>

\* while not shutdown_event.is_set(): ... ; after the loop, the final
\* flush of a batch that is not empty             (db.py:234, 253-255)
E_Check ==
    /\ Running /\ epc = "e_loop"
    /\ IF shutdown_event
       THEN IF batch_texts # <<>>
            THEN Call_process_batch("e_done", batch_ids, batch_texts,
                                    batch_timestamps)
            ELSE epc' = "e_done" /\ UNCHANGED <<e_ret, pre, outcome>>
       ELSE epc' = "e_get" /\ UNCHANGED <<e_ret, pre, outcome>>
    /\ UNCHANGED <<shutdown_event, cache_vars, log_queue, store_vars, clock,
                   watcher_vars, flusher_vars, batch_ids, batch_texts,
                   batch_timestamps, main_vars, flush_hist, pulled,
                   discarded, appended>>

\* log_queue.get(timeout=2.0) returns a record; it joins the batch, and a
\* full batch is processed                                (db.py:237-251)
E_Get ==
    /\ Running /\ epc = "e_get" /\ log_queue # <<>>
    /\ log_queue' = Tail(log_queue)
    /\ batch_ids' = Append(batch_ids, Head(log_queue).id)
    /\ batch_texts' = Append(batch_texts, Head(log_queue).text)
    /\ batch_timestamps' = Append(batch_timestamps, Head(log_queue).ts)
    /\ pulled' = Append(pulled, Head(log_queue).id)
    /\ IF Full(batch_texts')
       THEN Call_process_batch("e_loop", batch_ids', batch_texts',
                               batch_timestamps')
       ELSE epc' = "e_loop" /\ UNCHANGED <<e_ret, pre, outcome>>
    /\ UNCHANGED <<shutdown_event, cache_vars, store_vars, clock,
                   watcher_vars, flusher_vars, main_vars,
                   flush_hist, discarded, appended>>

\* the get times out on an empty queue: a partial batch is processed
\*                                                        (db.py:238-242)
E_Timeout ==
    /\ Running /\ epc = "e_get" /\ log_queue = <<>>
    /\ IF batch_texts # <<>>
       THEN Call_process_batch("e_loop", batch_ids, batch_texts,
                               batch_timestamps)
       ELSE epc' = "e_loop" /\ UNCHANGED <<e_ret, pre, outcome>>
    /\ UNCHANGED <<shutdown_event, cache_vars, log_queue, store_vars, clock,
                   watcher_vars, flusher_vars, batch_ids, batch_texts,
                   batch_timestamps, main_vars, flush_hist, pulled,
                   discarded, appended>>

\* model.encode and index.add both succeed                (db.py:211-212)
PB_Add ==
    /\ Running /\ epc = "pb_encode"
    /\ index' = IndexAdd(index, EncodeAll(batch_texts))
    /\ epc' = "pb_lock"
    /\ UNCHANGED <<shutdown_event, cache_vars, log_queue, metadata,
                   metadata_lock, clock, watcher_vars, flusher_vars, e_ret,
                   batch_ids, batch_texts, batch_timestamps,
                   main_vars, flush_hist, batch_hist>>

\* model.encode raises: except, then finally    (db.py:211, 226-232)
PB_EncodeFail ==
    /\ Running /\ epc = "pb_encode"
    /\ outcome' = "failed"
    /\ discarded' = discarded \cup Range(batch_ids)
    /\ Return_process_batch
    /\ UNCHANGED <<shutdown_event, cache_vars, log_queue, store_vars, clock,
                   watcher_vars, flusher_vars, e_ret, main_vars, flush_hist,
                   pulled, pre, appended>>

\* index.add raises, having stored nothing: except, then finally
\*                                                   (db.py:212, 226-232)
PB_AddFail ==
    /\ Running /\ epc = "pb_encode"
    /\ outcome' = "failed"
    /\ discarded' = discarded \cup Range(batch_ids)
    /\ Return_process_batch
    /\ UNCHANGED <<shutdown_event, cache_vars, log_queue, store_vars, clock,
                   watcher_vars, flusher_vars, e_ret, main_vars, flush_hist,
                   pulled, pre, appended>>

\* with metadata_lock: for ... in zip(...): metadata.append(...)
\*                                                        (db.py:215-218)
PB_Append ==
    /\ Running /\ epc = "pb_lock" /\ metadata_lock = "free"
    /\ metadata_lock' = "worker"
    /\ metadata' = metadata \o Entries(batch_ids, batch_texts, batch_timestamps)
    /\ appended' = appended \o Entries(batch_ids, batch_texts, batch_timestamps)
    /\ epc' = "pb_trim"
    /\ UNCHANGED <<shutdown_event, cache_vars, log_queue, index, clock,
                   watcher_vars, flusher_vars, e_ret, batch_ids, batch_texts,
                   batch_timestamps, main_vars, flush_hist, pulled, pre,
                   outcome, discarded>>

\* the trim; the lock is let go; finally                  (db.py:221-232)
PB_Trim ==
    /\ Running /\ epc = "pb_trim"
    /\ metadata' = Trim(metadata)
    /\ metadata_lock' = "free"
    /\ outcome' = "ok"
    /\ Return_process_batch
    /\ UNCHANGED <<shutdown_event, cache_vars, log_queue, index, clock,
                   watcher_vars, flusher_vars, e_ret, main_vars,
                   flush_hist, pulled, pre, discarded, appended>>

(***************************************************************************)
(* search_query (db.py:258-312) and main (db.py:376-448)                   *)
(***************************************************************************)
\* what the user can ask for
Queries == { <<>>, <<" ">>, <<"a">> }
Ks == { 0, 3 }
Modes == { "raw", "pretty" }

\* f"{x:.3f}" of a whole number
FormatFloat(x) == Dec(x) \o <<".000">>

\* one line of the result                                 (db.py:302-307)
Render(mode, meta, dist) ==
    IF mode = "raw" THEN meta.text
    ELSE FormatFloat(meta.timestamp) \o <<" | dist=">> \o FormatFloat(dist)
             \o <<" | ">> \o meta.text

\* the loop over zip(D[0], I[0]): positions outside the store are skipped
\*                                                        (db.py:293-307)
RECURSIVE Resolve(_, _, _)
Resolve(found, meta, mode) ==
    IF found = <<>> THEN <<>>
    ELSE LET d == Head(found)
         IN (IF d.idx < 0 \/ d.idx >= Len(meta) THEN <<>>
             ELSE <<Render(mode, meta[d.idx + 1], d.dist)>>)
            \o Resolve(Tail(found), meta, mode)

\* SearchLocked, returning the results even when there are none
SearchLocked_NoFallback(idx, meta, emb, kk, mode) ==
    IF Len(idx) = 0
    THEN << <<"No logs indexed yet. Please wait for data to accumulate.">> >>
    ELSE Resolve(Nearest(idx, emb, Min(kk, Len(idx)), {}), meta, mode)

\* the body of "with metadata_lock:" and the return       (db.py:285-309)
SearchLocked(idx, meta, emb, kk, mode) ==
    IF Len(idx) = 0
    THEN << <<"No logs indexed yet. Please wait for data to accumulate.">> >>
    ELSE LET k_adjusted == Min(kk, Len(idx))
             results == Resolve(Nearest(idx, emb, k_adjusted, {}), meta, mode)
         IN IF results # <<>> THEN results
            ELSE << <<"No matching results found.">> >>

\* the early validation: the message returned, or nothing for arguments
\* that pass, accepting any k
Validation_AnyK(qq, kk) ==
    IF qq = <<>> \/ Strip(qq) = <<>>
    THEN << <<"Empty query provided.">> >>
    ELSE <<>>

\* the early validation: the message returned, or nothing for arguments
\* that pass                                              (db.py:272-277)
Validation(qq, kk) ==
    IF qq = <<>> \/ Strip(qq) = <<>>
    THEN << <<"Empty query provided.">> >>
    ELSE IF kk <= 0
    THEN << <<"Invalid k value. Must be positive.">> >>
    ELSE <<>>

\* the arguments of search_query outside a call, and its q_emb
NoQuery == [q |-> <<>>, k |-> 0, display_mode |-> "pretty",
            q_emb |-> Encode(<<>>)]

\* search_query(q, k, display_mode) is called: it validates its arguments
\* and embeds the query                                   (db.py:272-281)
M_Query ==
    /\ mpc = "m_input"
    /\ \E qq \in Queries, kk \in Ks, mode \in Modes :
         /\ q' = qq /\ k' = kk /\ display_mode' = mode
         /\ IF Validation(qq, kk) # <<>>
            THEN /\ mpc' = "m_print"
                 /\ hits' = Validation(qq, kk)
                 /\ UNCHANGED q_emb
            ELSE /\ mpc' = "s_lock"
                 /\ q_emb' = Encode(Strip(qq))
                 /\ UNCHANGED hits
    /\ UNCHANGED <<shutdown_event, cache_vars, log_queue, store_vars, clock,
                   watcher_vars, flusher_vars, worker_vars, flush_hist,
                   batch_hist>>

\* model.encode raises in search_query, whose arguments had passed the
\* validation: "Search error"                        (db.py:281, 311-312)
M_QueryFail ==
    /\ mpc = "m_input"
    /\ \E qq \in Queries, kk \in Ks, mode \in Modes :
         /\ Validation(qq, kk) = <<>>
         /\ q' = qq /\ k' = kk /\ display_mode' = mode
    /\ mpc' = "m_print"
    /\ hits' = << <<"Search error: ", "encode">> >>
    /\ UNCHANGED <<shutdown_event, cache_vars, log_queue, store_vars, clock,
                   watcher_vars, flusher_vars, worker_vars, q_emb,
                   flush_hist, batch_hist>>

\* with metadata_lock:                                         (db.py:284)
S_Acquire ==
    /\ mpc = "s_lock" /\ metadata_lock = "free"
    /\ metadata_lock' = "search"
    /\ mpc' = "s_search"
    /\ UNCHANGED <<shutdown_event, cache_vars, log_queue, metadata, index,
                   clock, watcher_vars, flusher_vars, worker_vars, q, k,
                   display_mode, q_emb, hits, flush_hist, batch_hist>>

\* S_SearchFail, leaving the critical section without letting the lock go
S_SearchFail_KeepsLock ==
    /\ mpc = "s_search"
    /\ hits' = << <<"Search error: ", "search">> >>
    /\ mpc' = "m_print"
    /\ q_emb' = NoQuery.q_emb
    /\ UNCHANGED <<shutdown_event, cache_vars, log_queue, store_vars,
                   clock, watcher_vars, flusher_vars, worker_vars, q, k,
                   display_mode, flush_hist, batch_hist>>

\* the search and the resolution of its positions, under the lock, which
\* is then let go; search_query returns                   (db.py:285-309)
S_Search ==
    /\ mpc = "s_search"
    /\ hits' = SearchLocked(index, metadata, q_emb, k, display_mode)
    /\ metadata_lock' = "free"
    /\ mpc' = "m_print"
    /\ q_emb' = NoQuery.q_emb
    /\ UNCHANGED <<shutdown_event, cache_vars, log_queue, metadata, index,
                   clock, watcher_vars, flusher_vars, worker_vars, q, k,
                   display_mode, flush_hist, batch_hist>>

\* index.search raises inside the critical section: the with statement
\* lets the lock go and the except clause returns "Search error"
\*                                              (db.py:284-290, 311-312)
S_SearchFail ==
    /\ mpc = "s_search"
    /\ hits' = << <<"Search error: ", "search">> >>
    /\ metadata_lock' = "free"
    /\ mpc' = "m_print"
    /\ q_emb' = NoQuery.q_emb
    /\ UNCHANGED <<shutdown_event, cache_vars, log_queue, metadata, index,
                   clock, watcher_vars, flusher_vars, worker_vars, q, k,
                   display_mode, flush_hist, batch_hist>>

\* the hits are printed, with k and display_mode, and main is back at its
\* prompt                                                 (db.py:426-434)
M_Print ==
    /\ mpc = "m_print"
    /\ hits' = <<>>
    /\ mpc' = "m_input"
    /\ q' = NoQuery.q /\ k' = NoQuery.k /\ display_mode' = NoQuery.display_mode
    /\ UNCHANGED <<shutdown_event, cache_vars, log_queue, store_vars, clock,
                   watcher_vars, flusher_vars, worker_vars, q_emb,
                   flush_hist, batch_hist>>

\* "exit", end of input or an interrupt: shutdown_event.set()
\*                                                        (db.py:407-439)
M_Shutdown ==
    /\ mpc = "m_input"
    /\ shutdown_event' = TRUE
    /\ mpc' = "m_join"
    /\ UNCHANGED <<cache_vars, log_queue, store_vars, clock, watcher_vars,
                   flusher_vars, worker_vars, q, k, display_mode, q_emb,
                   hits, flush_hist, batch_hist>>

\* the three join(timeout=2) return, each because its thread ended or
\* because the two seconds passed; "Shutdown complete." is printed and
\* main returns, which ends the daemon threads            (db.py:442-452)
M_Join ==
    /\ mpc = "m_join"
    /\ mpc' = "m_done"
    /\ UNCHANGED <<shutdown_event, cache_vars, log_queue, store_vars, clock,
                   watcher_vars, flusher_vars, worker_vars, q, k,
                   display_mode, q_emb, hits, flush_hist, batch_hist>>

(***************************************************************************)
(* The system.                                                             *)
(***************************************************************************)
Watcher == W_Read \/ W_Stop \/ W_Eof \/ W_Acquire \/ W_Set

Flusher == \/ F_WaitSet \/ F_Timeout \/ F_Acquire \/ F_Clear \/ F_Push
           \/ FF_Acquire \/ FF_Clear \/ FF_Push

Worker == \/ E_Check \/ E_Get \/ E_Timeout \/ PB_Add \/ PB_EncodeFail
          \/ PB_AddFail \/ PB_Append \/ PB_Trim

Main == \/ M_Query \/ M_QueryFail \/ S_Acquire \/ S_Search \/ S_SearchFail
        \/ M_Print \/ M_Shutdown \/ M_Join

Next == Watcher \/ Flusher \/ Worker \/ Main

Spec == Init /\ [][Next]_vars

\* The shutdown path: the three background threads with a user who asks
\* nothing and, at some moment or never, ends the session.  No query can
\* be in flight once shutdown_event is set, since main sets it from its
\* prompt, and a query leaves nothing behind it in the shared state.
ShutdownNext == Watcher \/ Flusher \/ Worker \/ M_Shutdown \/ M_Join

\* The background threads are scheduled fairly: a thread that can take a
\* step is not left waiting forever, and the calls it makes return.  The
\* log source and the user are under no obligation, and neither is the
\* moment main's joins give up.
LiveSpec ==
    /\ Init /\ [][ShutdownNext]_vars
    /\ WF_vars(Watcher) /\ WF_vars(Flusher) /\ WF_vars(Worker)

(***************************************************************************)
(* normalize_log on its own (db.py:55-78): one call, on any short line     *)
(* over the characters its patterns tell apart, or on a line that carries  *)
(* the syslog prefix twice.                                                *)
(***************************************************************************)
NormChars == {"a", "[", "1", "]", " "}

NormLines ==
    UNION { [1..n -> NormChars] : n \in 0..MaxLineLen }
    \cup { <<"N","o","v"," ","4"," ","1",":","2",":","3"," ","h"," ",
             "N","o","v"," ","4"," ","1",":","2",":","3"," ","h"," ","a">> }

\* normalized = normalize_log(line), for the first line read  (db.py:110)
N_Normalize ==
    /\ lines_read = 0
    /\ \E line \in NormLines : normalized' = normalize_log(line)
    /\ lines_read' = 1
    /\ UNCHANGED <<shutdown_event, cache_vars, log_queue, store_vars, clock,
                   wpc, w_count, flusher_vars, worker_vars, main_vars,
                   flush_hist, batch_hist>>

NormSpec == Init /\ [][N_Normalize]_vars

(***************************************************************************)
(* Operators the properties are written with.                              *)
(***************************************************************************)
\* the sum of the counts of a sequence of [msg, count] pairs
RECURSIVE SumCounts(_)
SumCounts(pairs) ==
    IF pairs = <<>> THEN 0 ELSE Head(pairs).count + SumCounts(Tail(pairs))

\* the number of lines a per-key tally holds
RECURSIVE SumOver(_, _)
SumOver(tally, keys) ==
    IF keys = {} THEN 0
    ELSE LET key == CHOOSE x \in keys : TRUE
         IN tally[key] + SumOver(tally, keys \ {key})

Lines(tally) == SumOver(tally, Keys)

\* sub occurs in text as a contiguous piece
Contains(text, sub) ==
    \E i \in 0..(Len(text) - Len(sub)) : SubSeq(text, i + 1, i + Len(sub)) = sub

\* int(digits)
RECURSIVE ParseDec(_)
ParseDec(digits) ==
    IF digits = <<>> THEN 0
    ELSE 10 * ParseDec(SubSeq(digits, 1, Len(digits) - 1))
         + (CHOOSE d \in 0..9 : Digits[d + 1] = digits[Len(digits)])

IsSummary(text) == text # <<>> /\ text[1] = "<stopwatch>"

Quoted(key) == <<"\"">> \o key \o <<"\"">>

Repeated(n) == <<"repeated", " ">> \o Dec(n) \o <<"x">>

\* the number of lines a record's text stands for, read back from the text:
\* the <n> of its last "repeated <n>x", or 1 for a text that is no summary
CarriedCount(text) ==
    IF ~IsSummary(text) THEN 1
    ELSE LET p == CHOOSE i \in DOMAIN text :
                     /\ text[i] = "repeated"
                     /\ \A j \in DOMAIN text : j > i => text[j] # "repeated"
         IN ParseDec(SubSeq(text, p + 2, Len(text) - 1))

\* the lines carried by the records of window win (of every window, for
\* win = 0)
RECURSIVE CarriedBy(_, _)
CarriedBy(recs, win) ==
    IF recs = <<>> THEN 0
    ELSE (IF win = 0 \/ Head(recs).win = win
          THEN CarriedCount(Head(recs).text) ELSE 0)
         + CarriedBy(Tail(recs), win)

\* the pairs the flusher has drained from the cache and not yet turned
\* into records
Pending == IF fpc \in {"f_push", "ff_push"} THEN items ELSE <<>>

\* all lines counted by ingestion so far
RECURSIVE Counted(_)
Counted(wins) ==
    IF wins = <<>> THEN 0 ELSE Lines(Head(wins)) + Counted(Tail(wins))

\* window w has been drained and its conversion loop has run to its end
Completed(w) ==
    \/ w < Len(windows)
    \/ w = Len(windows) /\ fpc \notin {"f_push", "ff_push"}

\* the records pushed for key in window w
RecordsOf(w, key) ==
    { i \in DOMAIN pushed :
        /\ pushed[i].win = w
        /\ \/ pushed[i].text = key
           \/ IsSummary(pushed[i].text) /\ Contains(pushed[i].text, Quoted(key)) }

IdsOf(recs) == { recs[i].id : i \in DOMAIN recs }

(***************************************************************************)
(* Properties.                                                             *)
(***************************************************************************)

\* C1: for every position p of the metadata store, the vector at position p
\* of the index was computed from the text stored at metadata[p].
C1_Alignment ==
    \A p \in DOMAIN metadata :
        p <= Len(index) /\ index[p] = Encode(metadata[p].text)

\* the vectors of the batch in hand are in the index and its entries are
\* not yet in the metadata store
BatchHalfApplied == epc = "pb_lock"

\* C2: while search_query is inside its critical section, no batch is half
\* applied: the index add and the metadata append of a batch look like one
\* step to it.
C2_SearchSeesWholeBatches ==
    metadata_lock = "search" => ~BatchHalfApplied

\* process_batch has returned from a batch and has not been called again
BatchProcessed == outcome \in {"ok", "failed"}

\* C3: once process_batch has finished with a batch, the index holds as
\* many vectors as the metadata store holds entries.
C3_CountsEqualAfterBatch ==
    BatchProcessed => Len(index) = Len(metadata)

\* C4 as stated: in every state, the lines counted by ingestion are the
\* counts in the cache plus the counts carried by the records pushed so far.
C4_CacheAndPushedOnly ==
    Lines(window) + Counted(windows)
        = SumCounts(repeat_cache) + CarriedBy(pushed, 0)

\* C4 as amended: in every state, the lines counted by ingestion are the
\* counts in the cache, plus the counts of the pairs the flusher has
\* drained and not yet pushed, plus the counts carried by the records
\* pushed so far; and the same holds window by window: the records of a
\* drained window, with the pairs of it still to be pushed, carry exactly
\* the lines counted in that window.
C4_NoLineLost ==
    /\ Lines(window) + Counted(windows)
          = SumCounts(repeat_cache) + SumCounts(Pending) + CarriedBy(pushed, 0)
    /\ \A w \in DOMAIN windows :
          CarriedBy(pushed, w)
              + (IF w = Len(windows) THEN SumCounts(Pending) ELSE 0)
            = Lines(windows[w])

\* a line counted before a drain and a line counted after it have both
\* been pushed, each in its own window
C4_Witness ==
    /\ Len(windows) >= 2 /\ Pending = <<>> /\ repeat_cache = <<>>
    /\ Lines(windows[1]) >= 1 /\ Lines(windows[2]) >= 1
    /\ \E i, j \in DOMAIN pushed : pushed[i].win = 1 /\ pushed[j].win = 2

\* the background tasks have ended and main has declared shutdown complete
ShutdownComplete ==
    mpc = "m_done" /\ wpc = "w_done" /\ fpc = "f_done" /\ epc = "e_done"

\* C5: once the tasks have ended and shutdown is complete, every record
\* pushed has been pulled exactly once, the queue is empty and no count is
\* left in the cache.
C5_AllConsumedAtShutdown ==
    ShutdownComplete =>
        /\ log_queue = <<>>
        /\ repeat_cache = <<>>
        /\ \A i \in DOMAIN pushed :
              Cardinality({ j \in DOMAIN pulled : pulled[j] = pushed[i].id }) = 1

\* C6: after a batch of size b is processed from a store of length m, the
\* store's length is min(m + b, MAX_METADATA_SIZE) and it holds the newest
\* entries, in order; and the store is over MAX_METADATA_SIZE only while the
\* worker holds metadata_lock.
C6_StoreBounded ==
    /\ metadata_lock # "worker" => Len(metadata) <= MAX_METADATA_SIZE
    /\ outcome = "ok" =>
          LET all == pre.metadata \o Entries(pre.ids, pre.texts, pre.stamps)
              m == Len(pre.metadata)
              b == Len(pre.texts)
          IN /\ Len(all) = m + b
             /\ Len(metadata) = Min(m + b, MAX_METADATA_SIZE)
             /\ metadata = SubSeq(all, Len(all) - Len(metadata) + 1, Len(all))

\* a batch was processed that took the store past its limit
C6_Witness ==
    /\ outcome = "ok"
    /\ Len(pre.metadata) + Len(pre.texts) > MAX_METADATA_SIZE
    /\ Len(pre.metadata) >= 1

\* C7: for a key counted n >= 1 times in a window that has been flushed,
\* exactly one record of that window is for the key; its text is the key
\* itself when n = 1, and otherwise the summary with the key in quotes and
\* "repeated <n>x".
C7_OneRecordPerKey ==
    \A w \in DOMAIN windows : Completed(w) =>
        \A key \in Keys : windows[w][key] >= 1 =>
            /\ Cardinality(RecordsOf(w, key)) = 1
            /\ \A i \in RecordsOf(w, key) :
                  IF windows[w][key] = 1
                  THEN pushed[i].text = key
                  ELSE /\ IsSummary(pushed[i].text)
                       /\ Contains(pushed[i].text, Quoted(key))
                       /\ Contains(pushed[i].text, Repeated(windows[w][key]))

\* a flushed window in which a key was counted more than once
C7_Witness ==
    \E w \in DOMAIN windows :
        /\ Completed(w)
        /\ \E key \in Keys : windows[w][key] >= 2 /\ RecordsOf(w, key) # {}

\* C8: sequence ids strictly increase in push order, over all windows and
\* the final flush, on the record of pushes and in the queue itself.
C8_IdsIncrease ==
    /\ \A i, j \in DOMAIN pushed : i < j => pushed[i].id < pushed[j].id
    /\ \A i, j \in DOMAIN log_queue : i < j => log_queue[i].id < log_queue[j].id

\* the flusher has ended, having pushed in a periodic window and in its
\* final flush
C8_Witness ==
    /\ fpc = "f_done"
    /\ \E i, j \in DOMAIN pushed : pushed[i].win = 1 /\ pushed[j].win = 2
    /\ Len(log_queue) >= 2

\* C9: the counts in the cache add up to the lines counted since the last
\* drain, every count is at least 1, and the empty string is no key.
C9_RepeatCache ==
    /\ SumCounts(repeat_cache) = Lines(window)
    /\ \A i \in DOMAIN repeat_cache :
          repeat_cache[i].count >= 1 /\ repeat_cache[i].msg # <<>>

\* after a drain that took a line, the cache holds a count again
C9_Witness ==
    /\ Len(windows) >= 1 /\ Lines(windows[1]) >= 1
    /\ Len(repeat_cache) >= 1

\* C10: a batch whose embedding or index add failed leaves the index and
\* the metadata store as they were; its records are in no batch, queue or
\* store afterwards; and the worker ends only on shutdown.
C10_FailedBatchDiscarded ==
    /\ outcome = "failed" => index = pre.index /\ metadata = pre.metadata
    /\ \A id \in discarded :
          /\ id \notin Range(batch_ids)
          /\ id \notin IdsOf(log_queue)
          /\ id \notin IdsOf(metadata)
    /\ epc = "e_done" => shutdown_event

\* a batch failed and a record pushed later is in the store
C10_Witness ==
    /\ discarded # {}
    /\ \E p \in DOMAIN metadata : \E id \in discarded : metadata[p].id > id

\* the two results of the early validation
ValidationMessages ==
    { <<"Empty query provided.">>, <<"Invalid k value. Must be positive.">> }

\* every fixed message search_query can return in place of results
Messages ==
    ValidationMessages \cup
    { <<"No logs indexed yet. Please wait for data to accumulate.">>,
      <<"No matching results found.">>,
      <<"Search error: ", "encode">>, <<"Search error: ", "search">> }

\* a step in which search_query returns
Returns == mpc # "m_print" /\ mpc' = "m_print"

Rejected(qq, kk) ==
    \/ \A i \in DOMAIN qq : qq[i] \in SpaceChars
    \/ kk <= 0

\* a step in which search_query is called
Called == mpc = "m_input" /\ mpc' \in {"m_print", "s_lock"}

\* C12: a call of search_query with an empty or whitespace-only query, or
\* with k <= 0, returns at once with one validation message: it does not
\* go on to metadata_lock, computes no embedding, and leaves the index, the
\* store, the queue, the cache and the locks as they were.
C12_ValidationOnly ==
    [][(Called /\ Rejected(q', k')) =>
         /\ mpc' = "m_print"
         /\ Len(hits') = 1 /\ hits'[1] \in ValidationMessages
         /\ UNCHANGED <<q_emb, shutdown_event, cache_vars, log_queue,
                        store_vars>>
      ]_vars

\* a call with k <= 0 has returned its message while the worker held
\* metadata_lock over a store and an index that are not empty
C12_Witness ==
    /\ mpc = "m_print" /\ k <= 0 /\ ~Rejected(q, 1)
    /\ hits = << <<"Invalid k value. Must be positive.">> >>
    /\ metadata_lock = "worker" /\ index # <<>> /\ metadata # <<>>

\* the window flusher and the batch assembler have returned, the assembler
\* with nothing left in its batch
TasksEnded ==
    /\ fpc = "f_done" /\ epc = "e_done"
    /\ batch_ids = <<>> /\ batch_texts = <<>> /\ batch_timestamps = <<>>

\* C13 as stated: once the shutdown signal is set, the window flusher and
\* the batch assembler each eventually terminate, the assembler with an
\* empty batch.
C13_TasksEnd == shutdown_event ~> TasksEnded

\* C13 as amended: once the shutdown signal is set, the flusher and the
\* assembler each eventually terminate, the assembler with an empty batch,
\* unless main's joins give up first and the process exits, which ends
\* the daemon threads where they stand.
C13_TasksEndOrProcessExits ==
    shutdown_event ~> (TasksEnded \/ mpc = "m_done")

\* both tasks have ended after shutdown with main still in its joins, the
\* flusher having pushed in its last drain and the assembler having
\* processed what it held
C13_Witness ==
    /\ shutdown_event /\ mpc = "m_join" /\ TasksEnded
    /\ \E i \in DOMAIN pushed : pushed[i].win = Len(windows) /\ Len(windows) >= 2
    /\ outcome = "ok" /\ pre.ids # <<>>

\* C14: normalization is idempotent: normalizing what normalize_log
\* returned gives it back unchanged.
C14_Idempotent == normalize_log(normalized) = normalized

\* the assembler is inside process_batch, past its test for an empty batch
InProcessBatch == epc \in {"pb_encode", "pb_lock", "pb_trim"}

\* a step of the assembler's loop: a pull, a timed-out pull or a loop test
LoopStep == epc \in {"e_loop", "e_get"} /\ epc' # epc

\* (a) the pull brings the batch to BATCH_SIZE, (b) the pull times out over
\* a batch that is not empty, (c) the loop test sees the shutdown signal
\* over a batch that is not empty
HandOver ==
    \/ epc = "e_get" /\ log_queue # <<>> /\ Len(batch_texts') = BATCH_SIZE
    \/ epc = "e_get" /\ log_queue = <<>> /\ batch_texts # <<>>
    \/ epc = "e_loop" /\ shutdown_event /\ batch_texts # <<>>

\* C15: the batch never holds more than BATCH_SIZE records, its three
\* arrays stay of one length, and process_batch never works on an empty
\* batch; a step of the assembler's loop hands the batch to process_batch
\* exactly in the cases (a), (b) and (c); and a pull that times out over an
\* empty batch leaves the index and the store alone.
C15_BatchHandling ==
    /\ [](/\ Len(batch_texts) <= BATCH_SIZE
          /\ Len(batch_ids) = Len(batch_texts)
          /\ Len(batch_timestamps) = Len(batch_texts)
          /\ InProcessBatch => batch_texts # <<>>)
    /\ [][LoopStep =>
            /\ (epc' = "pb_encode") <=> HandOver
            /\ (epc = "e_get" /\ log_queue = <<>> /\ batch_texts = <<>>)
                  => epc' = "e_loop" /\ UNCHANGED store_vars
         ]_vars

\* a full batch has been handed over by the pull that filled it, before
\* any shutdown
C15_Witness ==
    /\ epc = "pb_encode" /\ e_ret = "e_loop" /\ ~shutdown_event
    /\ Len(batch_texts) = BATCH_SIZE /\ log_queue = <<>>

\* a sequence of records or entries as (id, text, time) triples
Triples(recs) ==
    [i \in DOMAIN recs |->
        <<recs[i].id, recs[i].text,
          IF "ts" \in DOMAIN recs[i] THEN recs[i].ts ELSE recs[i].timestamp>>]

\* a can be had from b by leaving elements out
RECURSIVE IsSubseq(_, _)
IsSubseq(a, b) ==
    IF a = <<>> THEN TRUE
    ELSE IF b = <<>> THEN FALSE
    ELSE IF Head(a) = Head(b) THEN IsSubseq(Tail(a), Tail(b))
    ELSE IsSubseq(a, Tail(b))

\* C16: the records are pulled in the order they were pushed; the entries
\* appended to the store, trimmed or not, are a subsequence of the records
\* pushed, in push order; a pushed record missing before an appended one
\* belongs to a batch that failed; and the index holds the vectors of the
\* appended entries in the same order, followed by those of a batch whose
\* entries are about to be appended.
C16_AppendOrder ==
    /\ Len(pulled) <= Len(pushed)
    /\ \A i \in DOMAIN pulled : pulled[i] = pushed[i].id
    /\ IsSubseq(Triples(appended), Triples(pushed))
    /\ \A i, j \in DOMAIN pushed :
          (i < j /\ pushed[j].id \in IdsOf(appended)
                 /\ pushed[i].id \notin IdsOf(appended))
              => pushed[i].id \in discarded
    /\ index = EncodeAll([i \in DOMAIN appended |-> appended[i].text])
                  \o (IF epc = "pb_lock" THEN EncodeAll(batch_texts) ELSE <<>>)

\* two records that waited in the queue together have been appended, in
\* push order
C16_Witness ==
    /\ Len(appended) >= 2 /\ Len(pushed) >= 2
    /\ pre.ids = <<pushed[1].id, pushed[2].id>> /\ outcome = "ok"

\* C17: cache_lock is held by ingestion only between reading a count and
\* writing it back, and by the flusher only between listing the cache and
\* clearing it; while the flusher converts and pushes its pairs it does not
\* hold the lock, and an ingestion that wants the lock then finds it free.
C17_CacheLockHeldBriefly ==
    /\ cache_lock = "watcher" => wpc = "w_set"
    /\ cache_lock = "flusher" => fpc \in {"f_clear", "ff_clear"}
    /\ fpc \in {"f_push", "ff_push"} =>
          /\ cache_lock # "flusher"
          /\ wpc = "w_lock" => cache_lock = "free"

\* ingestion holds the lock for an increment while the flusher is pushing
\* the pairs of its drain
C17_Witness ==
    /\ fpc = "f_push" /\ items # <<>>
    /\ cache_lock = "watcher" /\ wpc = "w_set"

\* C18: the index holds at least as many vectors as the store holds
\* entries, so a position that search_query finds inside the store is a
\* position of the index.
C18_IndexAtLeastStore ==
    Len(index) >= Len(metadata)

\* a search is under way over an index that has outgrown the store
C18_Witness ==
    /\ metadata_lock = "search"
    /\ metadata # <<>> /\ Len(index) > Len(metadata)

\* C19: the ids of the store's entries strictly increase with position; so
\* do those of all entries ever appended, so that none was appended twice;
\* and the store is the tail of what was appended, so that trimming took
\* the smallest ids.
C19_StoreIdsIncrease ==
    /\ \A i, j \in DOMAIN metadata : i < j => metadata[i].id < metadata[j].id
    /\ \A i, j \in DOMAIN appended : i < j => appended[i].id < appended[j].id
    /\ Len(metadata) <= Len(appended)
    /\ metadata = SubSeq(appended, Len(appended) - Len(metadata) + 1,
                         Len(appended))

\* two entries or more have been appended and a trim has cut the store
\* back to the newest of them
C19_Witness ==
    /\ Len(appended) >= 2 /\ outcome = "ok"
    /\ Len(metadata) < Len(appended) /\ metadata # <<>>

\* C20: cache_lock is only ever held by ingestion or the flusher and
\* metadata_lock by the assembler or the query path, each only inside its
\* own critical section, which no task enters while inside another; a
\* task that has left its critical section, by a return or by a failure,
\* does not hold the lock; and while the process runs, whenever a task
\* waits for a lock the holder's releasing step can be taken.
C20_LocksNeverNested ==
    /\ cache_lock \in {"free", "watcher", "flusher"}
    /\ metadata_lock \in {"free", "worker", "search"}
    /\ cache_lock = "watcher" <=> wpc = "w_set"
    /\ cache_lock = "flusher" <=> fpc \in {"f_clear", "ff_clear"}
    /\ metadata_lock = "worker" <=> epc = "pb_trim"
    /\ metadata_lock = "search" <=> mpc = "s_search"
    /\ Running =>
          /\ cache_lock # "free" => ENABLED (W_Set \/ F_Clear \/ FF_Clear)
          /\ metadata_lock # "free" =>
                ENABLED (PB_Trim \/ S_Search \/ S_SearchFail)

\* both locks are held at once, by different tasks, and the assembler
\* waits for metadata_lock
C20_Witness ==
    /\ cache_lock = "watcher" /\ metadata_lock = "search"
    /\ epc = "pb_lock"

====
